---- MODULE Spec2Model ----
(***************************************************************************)
(* A model of the three batch programs of the ETL repository:              *)
(*   "metrics"  the metrics batch runner          (src/src/etl/index.ts)   *)
(*   "unified"  the schema-unified preprocessor   (src/src/etl/preprocess.ts)*)
(*   "ndjson"   the NDJSON preprocessor           (src/unnamed/part_003)   *)
(* Text is modelled as a sequence of one-character strings, so that        *)
(* trimming, splitting, lower-casing and sorting are computed and not      *)
(* assumed.                                                                *)
(***************************************************************************)
EXTENDS Integers, Sequences, FiniteSets, TLC

\* ------------------------------------------------------------------ bounds
\* the largest number of files a directory listing holds
MaxFiles == 2
\* the largest number of data rows a parser delivers for one file
MaxRows == 2
\* the longest text a helper function is called with, where the texts are
\* all the strings over a small alphabet
MaxLen == 3

\* ------------------------------------------------------------------ text
Digits == <<"0", "1", "2", "3", "4", "5", "6", "7", "8", "9">>
Lower == <<"a", "b", "c", "d", "e", "f", "g", "h", "i", "j", "k", "l", "m",
           "n", "o", "p", "q", "r", "s", "t", "u", "v", "w", "x", "y", "z">>
Upper == <<"A", "B", "C", "D", "E", "F", "G", "H", "I", "J", "K", "L", "M",
           "N", "O", "P", "Q", "R", "S", "T", "U", "V", "W", "X", "Y", "Z">>

\* the characters the regular expression \s matches, among those used here
WhiteSpace == {" ", "\t"}

Range(s) == {s[k] : k \in DOMAIN s}

DigitSet == Range(Digits)
UpperSet == Range(Upper)

IndexOf(seq, c) == CHOOSE k \in DOMAIN seq : seq[k] = c

\* the characters of [a-z0-9_], in ascending UTF-16 code unit order
WordChars == Digits \o <<"_">> \o Lower
WordCharSet == Range(WordChars)

\* String.prototype.toLowerCase, one character
LowerChar(c) == IF c \in UpperSet THEN Lower[IndexOf(Upper, c)] ELSE c

\* String.prototype.trim
RECURSIVE TrimLeft(_)
TrimLeft(s) ==
  IF s # <<>> /\ Head(s) \in WhiteSpace THEN TrimLeft(Tail(s)) ELSE s

RECURSIVE TrimRight(_)
TrimRight(s) ==
  IF s # <<>> /\ s[Len(s)] \in WhiteSpace
  THEN TrimRight(SubSeq(s, 1, Len(s) - 1))
  ELSE s

Trim(s) == TrimRight(TrimLeft(s))

ToLowerCase(s) == [k \in DOMAIN s |-> LowerChar(s[k])]

\* .replace(/\s+/g, "_"): every maximal run of white space becomes one "_"
RECURSIVE ReplaceSpaceRuns(_)
ReplaceSpaceRuns(s) ==
  IF s = <<>> THEN <<>>
  ELSE IF Head(s) \in WhiteSpace
       THEN <<"_">> \o ReplaceSpaceRuns(TrimLeft(s))
       ELSE <<Head(s)>> \o ReplaceSpaceRuns(Tail(s))

\* .replace(/[^a-z0-9_]/g, "")
StripNonWord(s) == SelectSeq(s, LAMBDA c : c \in WordCharSet)

\* the mutant of standardizeHeader that leaves out the last replace
standardizeHeaderNoStrip(header) ==
  ReplaceSpaceRuns(ToLowerCase(Trim(header)))

\* standardizeHeader of preprocess.ts
standardizeHeader(header) ==
  StripNonWord(ReplaceSpaceRuns(ToLowerCase(Trim(header))))

\* standardizeHeader of index.ts
M_standardizeHeader(header) ==
  LET trimmed == Trim(header)
      lowered == ToLowerCase(trimmed)
      underscored == ReplaceSpaceRuns(lowered)
  IN StripNonWord(underscored)

\* the strings over an alphabet, up to MaxLen characters
Strings(alphabet) == UNION {[1..n -> alphabet] : n \in 0..MaxLen}

\* String.prototype.split(sep) for a one-character separator
RECURSIVE SplitFrom(_, _, _)
SplitFrom(s, sep, acc) ==
  IF s = <<>> THEN <<acc>>
  ELSE IF Head(s) = sep
       THEN <<acc>> \o SplitFrom(Tail(s), sep, <<>>)
       ELSE SplitFrom(Tail(s), sep, Append(acc, Head(s)))

Split(s, sep) == SplitFrom(s, sep, <<>>)

\* the order of Array.prototype.sort() without a comparator: by UTF-16 code
\* units; the strings compared are made of WordChars
Code(c) == IndexOf(WordChars, c)

RECURSIVE StrLess(_, _)
StrLess(a, b) ==
  IF b = <<>> THEN FALSE
  ELSE IF a = <<>> THEN TRUE
  ELSE IF Head(a) = Head(b) THEN StrLess(Tail(a), Tail(b))
  ELSE Code(Head(a)) < Code(Head(b))

RECURSIVE SortSet(_)
SortSet(S) ==
  IF S = {} THEN <<>>
  ELSE LET m == CHOOSE x \in S : \A y \in S \ {x} : StrLess(x, y)
       IN <<m>> \o SortSet(S \ {m})

\* ------------------------------------------------------------------ field normalizers
IsDigit(c) == c \in DigitSet

DigitVal(c) == IndexOf(Digits, c) - 1

DigitChar(n) == Digits[n + 1]

RECURSIVE DigitPrefix(_)
DigitPrefix(s) ==
  IF s # <<>> /\ IsDigit(Head(s)) THEN <<Head(s)>> \o DigitPrefix(Tail(s))
  ELSE <<>>

Drop(s, n) == SubSeq(s, n + 1, Len(s))

StartsWith(s, p) == Len(s) >= Len(p) /\ SubSeq(s, 1, Len(p)) = p

\* String.prototype.padStart(2, "0")
PadStart2(s) ==
  IF Len(s) >= 2 THEN s
  ELSE IF Len(s) = 1 THEN <<"0">> \o s
  ELSE <<"0", "0">>

\* the mutant of normalizeTime that takes the seconds unpadded
normalizeTimeRawSeconds(timeString) ==
  IF timeString = <<>> THEN <<>>
  ELSE LET timeParts == Split(timeString, ":")
       IN IF Len(timeParts) >= 2
          THEN LET hours == PadStart2(timeParts[1])
                   minutes == PadStart2(timeParts[2])
                   seconds == IF Len(timeParts) >= 3 /\ timeParts[3] # <<>>
                              THEN timeParts[3]
                              ELSE <<"0", "0">>
               IN hours \o <<":">> \o minutes \o <<":">> \o seconds
          ELSE <<>>

normalizeTime(timeString) ==
  IF timeString = <<>> THEN <<>>
  ELSE LET timeParts == Split(timeString, ":")
       IN IF Len(timeParts) >= 2
          THEN LET hours == PadStart2(timeParts[1])
                   minutes == PadStart2(timeParts[2])
                   seconds == IF Len(timeParts) >= 3 /\ timeParts[3] # <<>>
                              THEN PadStart2(timeParts[3])
                              ELSE <<"0", "0">>
               IN hours \o <<":">> \o minutes \o <<":">> \o seconds
          ELSE <<>>

\* String.prototype.replace(",", "."): the first comma only
RECURSIVE ReplaceFirstComma(_)
ReplaceFirstComma(s) ==
  IF s = <<>> THEN <<>>
  ELSE IF Head(s) = "," THEN <<".">> \o Tail(s)
  ELSE <<Head(s)>> \o ReplaceFirstComma(Tail(s))

RECURSIVE StripLeadingZeros(_)
StripLeadingZeros(ds) ==
  IF Len(ds) > 1 /\ Head(ds) = "0" THEN StripLeadingZeros(Tail(ds)) ELSE ds

RECURSIVE StripTrailingZeros(_)
StripTrailingZeros(ds) ==
  IF ds # <<>> /\ ds[Len(ds)] = "0"
  THEN StripTrailingZeros(SubSeq(ds, 1, Len(ds) - 1))
  ELSE ds

\* a JavaScript number: NaN, an infinity, or a decimal in canonical digits
NaN == [kind |-> "nan"]
Zero == [kind |-> "num", neg |-> FALSE, int |-> <<"0">>, frac |-> <<>>]

\* parseFloat: the longest prefix of the trimmed text that is a decimal
\* literal (sign, digits, fraction), or Infinity; exponents are not among the
\* characters of the cell values drawn here
parseFloat(text) ==
  LET t == TrimLeft(text)
      neg == t # <<>> /\ Head(t) = "-"
      u == IF t # <<>> /\ Head(t) \in {"+", "-"} THEN Tail(t) ELSE t
      ip == DigitPrefix(u)
      afterInt == Drop(u, Len(ip))
      fp == IF afterInt # <<>> /\ Head(afterInt) = "."
            THEN DigitPrefix(Tail(afterInt))
            ELSE <<>>
  IN IF StartsWith(u, <<"I", "n", "f", "i", "n", "i", "t", "y">>)
     THEN [kind |-> "inf", neg |-> neg]
     ELSE IF ip = <<>> /\ fp = <<>> THEN NaN
     ELSE [kind |-> "num", neg |-> neg,
           int |-> IF ip = <<>> THEN <<"0">> ELSE StripLeadingZeros(ip),
           frac |-> StripTrailingZeros(fp)]

parseNumericField(value) ==
  IF value = <<>> THEN Zero
  ELSE LET parsed == parseFloat(ReplaceFirstComma(value))
       IN IF parsed.kind = "nan" THEN Zero ELSE parsed

\* a Date: invalid, or the calendar day it falls on
InvalidDate == [valid |-> FALSE]

IsLeap(y) == (y % 4 = 0 /\ y % 100 # 0) \/ y % 400 = 0

DaysInMonth(y, m) ==
  IF m = 2 THEN (IF IsLeap(y) THEN 29 ELSE 28)
  ELSE IF m \in {4, 6, 9, 11} THEN 30 ELSE 31

PrevDay(y, m, d) ==
  IF d > 1 THEN [valid |-> TRUE, y |-> y, m |-> m, d |-> d - 1]
  ELSE IF m > 1
       THEN [valid |-> TRUE, y |-> y, m |-> m - 1, d |-> DaysInMonth(y, m - 1)]
       ELSE [valid |-> TRUE, y |-> y - 1, m |-> 12, d |-> 31]

Num2(s) == 10 * DigitVal(s[1]) + DigitVal(s[2])

Num4(s) == 100 * Num2(SubSeq(s, 1, 2)) + Num2(SubSeq(s, 3, 4))

Fmt2(n) == <<DigitChar(n \div 10), DigitChar(n % 10)>>

Fmt4(n) == Fmt2(n \div 100) \o Fmt2(n % 100)

\* the date-only form YYYY-MM-DD of the ECMAScript date-time string format,
\* naming a day that exists
IsIsoDate(s) ==
  /\ Len(s) = 10
  /\ s[5] = "-" /\ s[8] = "-"
  /\ \A k \in {1, 2, 3, 4, 6, 7, 9, 10} : IsDigit(s[k])
  /\ Num2(SubSeq(s, 6, 7)) \in 1..12
  /\ Num2(SubSeq(s, 9, 10)) \in
       1..DaysInMonth(Num4(SubSeq(s, 1, 4)), Num2(SubSeq(s, 6, 7)))

\* the local calendar day of new Date(text) for a date-only text: the text
\* names midnight UTC, which in a zone west of UTC is still the day before
IsoLocalDay(s, west) ==
  LET y == Num4(SubSeq(s, 1, 4))
      m == Num2(SubSeq(s, 6, 7))
      d == Num2(SubSeq(s, 9, 10))
  IN IF west THEN PrevDay(y, m, d)
     ELSE [valid |-> TRUE, y |-> y, m |-> m, d |-> d]

\* some day an engine's own heuristics may read out of a text that is not in
\* the date-time string format
HeuristicDay == [valid |-> TRUE, y |-> 2001, m |-> 1, d |-> 5]

\* the form NN/NN/YYYY, which the engine of Node.js reads as month/day/year
\* in local time, naming a day that exists
IsSlashDate(s) ==
  /\ Len(s) = 10
  /\ s[3] = "/" /\ s[6] = "/"
  /\ \A k \in {1, 2, 4, 5, 7, 8, 9, 10} : IsDigit(s[k])
  /\ Num2(SubSeq(s, 1, 2)) \in 1..12
  /\ Num2(SubSeq(s, 4, 5)) \in
       1..DaysInMonth(Num4(SubSeq(s, 7, 10)), Num2(SubSeq(s, 1, 2)))

\* the local calendar day of new Date(text) for such a text: local midnight
\* of that day, in every time zone
SlashLocalDay(s) ==
  [valid |-> TRUE, y |-> Num4(SubSeq(s, 7, 10)),
   m |-> Num2(SubSeq(s, 1, 2)), d |-> Num2(SubSeq(s, 4, 5))]

\* new Date(text): fixed by the language for the date-time string format;
\* for any other text the result is left to the engine (ECMA-262 Date.parse):
\* month/day/year for the slash form, and otherwise one of the outcomes an
\* engine may produce
DateOutcomes(text, west) ==
  IF IsIsoDate(text) THEN {IsoLocalDay(text, west)}
  ELSE IF IsSlashDate(text) THEN {SlashLocalDay(text)}
  ELSE {InvalidDate, HeuristicDay}

\* date-fns format(date, "yyyy-MM-dd")
FormatDay(day) ==
  Fmt4(day.y) \o <<"-">> \o Fmt2(day.m) \o <<"-">> \o Fmt2(day.d)

\* parsedDate stands for new Date(dateString)
normalizeDate(dateString, parsedDate) ==
  IF dateString = <<>> THEN <<>>
  ELSE IF ~parsedDate.valid THEN <<>>
  ELSE FormatDay(parsedDate)

\* ------------------------------------------------------------------ files
\* a file of the listing: the extension of its name, its first line, and its
\* kind: "text" has a header line the parser reads, "empty" has no line,
\* "unreadable" cannot be opened, "badheader" has a first line on which the
\* parser emits 'error'
TextFile(ext, line) == [ext |-> ext, kind |-> "text", line |-> line]
EmptyFile(ext) == [ext |-> ext, kind |-> "empty", line |-> <<>>]
UnreadableFile(ext) == [ext |-> ext, kind |-> "unreadable", line |-> <<>>]
BadHeaderFile(ext) ==
  [ext |-> ext, kind |-> "badheader", line |-> <<"a", ",", "a">>]

\* "Data,Hora" in a .csv file
LineA == <<"D", "a", "t", "a", ",", "H", "o", "r", "a">>
\* " hora ;num x" in a .tsv file
LineB == <<" ", "h", "o", "r", "a", " ", ";", "n", "u", "m", " ", "x">>
\* "__proto__" in a .csv file: a single column of that name
LineP == <<"_", "_", "p", "r", "o", "t", "o", "_", "_">>

FilePool ==
  { TextFile(".csv", LineA), TextFile(".tsv", LineB), TextFile(".csv", LineP),
    EmptyFile(".csv"), UnreadableFile(".tsv"), BadHeaderFile(".csv") }

\* the raw values a cell of a data row may hold: "", "7:5", "2024-03-01"
CellPool ==
  { <<>>, <<"7", ":", "5">>,
    <<"2", "0", "2", "4", "-", "0", "3", "-", "0", "1">> }

\* the listings of a directory, after the filter of the program
Listings == UNION {[1..n -> FilePool] : n \in 0..MaxFiles}

\* preprocess.ts detectSeparator, by the extension of the file name
detectSeparator(ext) ==
  IF ext = ".tsv" THEN ";"
  ELSE IF ext = ".csv" THEN ","
  ELSE ","

\* index.ts detectSeparator
M_detectSeparator(ext) == IF ext = ".csv" THEN "," ELSE ";"

\* the headers csv-parser delivers for a file: the first line split on the
\* separator, each column label mapped by mapHeaders
ParsedHeaders(f) ==
  LET cols == Split(f.line, detectSeparator(f.ext))
  IN [k \in DOMAIN cols |-> standardizeHeader(cols[k])]

\* the property name that an assignment obj[key] = value does not create on
\* an object literal: the assignment goes to the accessor of Object.prototype
\* and a value that is not an object is dropped
KeyProto == <<"_", "_", "p", "r", "o", "t", "o", "_", "_">>

\* the own keys an object literal has after the assignments obj[k] = value
\* for the keys k
AssignedKeys(keys) == keys \ {KeyProto}

\* the row object csv-parser builds from the cells of a line: cell k under
\* header k, a later column of the same name overwriting an earlier one
RowObject(headers, cells) ==
  [h \in AssignedKeys({headers[k] : k \in DOMAIN cells}) |->
     LET last == CHOOSE k \in DOMAIN cells :
                   /\ headers[k] = h
                   /\ \A j \in DOMAIN cells : headers[j] = h => j <= k
     IN cells[last]]

\* the data lines a parser may deliver for a file with these headers: a cell
\* for every column
CellRows(headers) == [1..Len(headers) -> CellPool]

\* ------------------------------------------------------------------ row transform
NumericNames ==
  { <<"a", "u", "t", "o">>, <<"m", "o", "t", "o">>,
    <<"c", "i", "c", "l", "o", "m">>,
    <<"c", "i", "c", "l", "i", "s", "t", "a">>,
    <<"p", "e", "d", "e", "s", "t", "r", "e">>,
    <<"o", "n", "i", "b", "u", "s">>,
    <<"c", "a", "m", "i", "n", "h", "a", "o">>,
    <<"v", "i", "a", "t", "u", "r", "a">>,
    <<"o", "u", "t", "r", "o", "s">>,
    <<"v", "i", "t", "i", "m", "a", "s">>,
    <<"v", "i", "t", "i", "m", "a", "s", "f", "a", "t", "a", "i", "s">> }

EndsWith(s, p) ==
  Len(s) >= Len(p) /\ SubSeq(s, Len(s) - Len(p) + 1, Len(s)) = p

IsNumericField(header) ==
  \/ header \in NumericNames
  \/ StartsWith(header, <<"n", "u", "m", "_">>)
  \/ EndsWith(header, <<"_", "c", "o", "u", "n", "t">>)

KeyData == <<"d", "a", "t", "a">>
KeyHora == <<"h", "o", "r", "a">>

\* a value of a record: a text or a number
Str(s) == [kind |-> "str", text |-> s]

KeyConstructor == <<"c", "o", "n", "s", "t", "r", "u", "c", "t", "o", "r">>

\* the function Object, which every object literal inherits as its
\* "constructor": a value that is no text
ObjectFunction == <<"function Object">>

\* row[header] || "": the own property of the row, else the property it
\* inherits from Object.prototype, else undefined, which gives ""
RawOrEmpty(row, header) ==
  IF header \in DOMAIN row THEN row[header]
  ELSE IF header = KeyConstructor THEN ObjectFunction
  ELSE <<>>

\* the body of the first generator of preprocessFile for one row:
\* standardizedRow starts as {} and gets standardizedRow[header] = ... for
\* every header of the schema; parsedDate stands for new Date(row.data)
transformRow(row, allHeaders, parsedDate) ==
  [h \in AssignedKeys(Range(allHeaders)) |->
     LET raw == RawOrEmpty(row, h)
         normalized == IF h = KeyData THEN normalizeDate(raw, parsedDate)
                       ELSE IF h = KeyHora THEN normalizeTime(raw)
                       ELSE raw
     IN IF IsNumericField(h) THEN parseNumericField(normalized)
        ELSE IF normalized = ObjectFunction
             THEN [kind |-> "function", text |-> normalized]
             ELSE Str(normalized)]

\* ------------------------------------------------------------------ NDJSON record
\* /^([01]\d|2[0-3]):([0-5]\d):([0-5]\d)$/
isValidTime(time) ==
  /\ Len(time) = 8
  /\ time[3] = ":" /\ time[6] = ":"
  /\ \A k \in {1, 2, 4, 5, 7, 8} : IsDigit(time[k])
  /\ \/ time[1] \in {"0", "1"}
     \/ time[1] = "2" /\ DigitVal(time[2]) <= 3
  /\ DigitVal(time[4]) <= 5
  /\ DigitVal(time[7]) <= 5

\* timeString.split(".")[0].trim()
TimeCandidate(timeString) == Trim(Split(timeString, ".")[1])

\* the test of line 50 of the NDJSON preprocessor
TimeAccepted(timeString) ==
  timeString # <<>> /\ isValidTime(TimeCandidate(timeString))

MidnightText == <<"0", "0", ":", "0", "0", ":", "0", "0">>
OffsetText == <<"-", "0", "3", ":", "0", "0">>

combineDateTime(dateString, timeString) ==
  LET cleanedDate == Trim(Split(dateString, "T")[1])
      cleanedTime == IF TimeAccepted(timeString)
                     THEN TimeCandidate(timeString)
                     ELSE MidnightText
  IN cleanedDate \o <<"T">> \o cleanedTime \o OffsetText

\* readFileSync(filePath, "utf-8").split("\n")[0]
FirstLine(content) == Split(content, "\n")[1]

\* the mutant of detectDelimiter that looks for the comma first
detectDelimiterCommaFirst(firstLine) ==
  IF "," \in Range(firstLine) THEN ","
  ELSE IF ";" \in Range(firstLine) THEN ";"
  ELSE IF "\t" \in Range(firstLine) THEN "\t"
  ELSE ","

\* the first line: readFileSync(filePath).split("\n")[0]; tab, then
\* semicolon, then comma, and comma when none is there
detectDelimiter(firstLine) ==
  IF "\t" \in Range(firstLine) THEN "\t"
  ELSE IF ";" \in Range(firstLine) THEN ";"
  ELSE IF "," \in Range(firstLine) THEN ","
  ELSE ","

DelimiterFound(firstLine) == Range(firstLine) \cap {"\t", ";", ","} # {}

KeyTipo == <<"t", "i", "p", "o">>
KeyNatureza == <<"n", "a", "t", "u", "r", "e", "z", "a">>
KeyNaturezaAcidente ==
  <<"n", "a", "t", "u", "r", "e", "z", "a", "_",
    "a", "c", "i", "d", "e", "n", "t", "e">>
KeySituacao == <<"s", "i", "t", "u", "a", "c", "a", "o">>

ConsumedKeys ==
  {KeyTipo, KeyNaturezaAcidente, KeyNatureza, KeySituacao, KeyData, KeyHora}

\* the mutant of TipoOf that looks at row.tipo first
TipoOfTipoFirst(row) ==
  IF RawOrEmpty(row, KeyTipo) # <<>> THEN row[KeyTipo]
  ELSE IF RawOrEmpty(row, KeyNatureza) # <<>> THEN row[KeyNatureza]
  ELSE RawOrEmpty(row, KeyNaturezaAcidente)

\* row.natureza_acidente || row.natureza || row.tipo || ""
TipoOf(row) ==
  IF RawOrEmpty(row, KeyNaturezaAcidente) # <<>>
  THEN row[KeyNaturezaAcidente]
  ELSE IF RawOrEmpty(row, KeyNatureza) # <<>> THEN row[KeyNatureza]
  ELSE RawOrEmpty(row, KeyTipo)

\* the mutant of ndjsonRecord that keeps every raw key in meta
ndjsonRecordMetaAll(row) ==
  [tipo |-> TipoOf(row),
   situacao |-> RawOrEmpty(row, KeySituacao),
   datahora |-> combineDateTime(RawOrEmpty(row, KeyData),
                                RawOrEmpty(row, KeyHora)),
   meta |-> row]

\* the warnings the Transform logs for a row: of its own (line 126) and of
\* combineDateTime (line 53)
ndjsonWarnings(row) ==
  (IF TipoOf(row) = <<>> THEN {"missing tipo"} ELSE {})
    \cup (IF TimeAccepted(RawOrEmpty(row, KeyHora)) THEN {}
          ELSE {"invalid time"})

\* the transformedRow of the Transform of the NDJSON preprocessor; meta is
\* the object that JSON.stringify serializes
ndjsonRecord(row) ==
  [tipo |-> TipoOf(row),
   situacao |-> RawOrEmpty(row, KeySituacao),
   datahora |-> combineDateTime(RawOrEmpty(row, KeyData),
                                RawOrEmpty(row, KeyHora)),
   meta |-> [k \in DOMAIN row \ ConsumedKeys |-> row[k]]]

\* the headers fast-csv reads with headers: true: the labels as written
RawHeaders(f) == Split(f.line, detectDelimiter(f.line))

\* the row object fast-csv builds: every header, "" for a missing cell
NdRowObject(headers, cells) ==
  [h \in AssignedKeys(Range(headers)) |->
     LET k == CHOOSE k \in DOMAIN headers : headers[k] = h
     IN IF k \in DOMAIN cells THEN cells[k] ELSE <<>>]

\* ------------------------------------------------------------------ state
VARIABLES
  prog,        \* the program that runs: "metrics", "unified" or "ndjson"
  proc,        \* the process: "running", "crashed" (uncaught exception) or
               \* "exited" (nothing left to run)
  tzWest,      \* the time zone of the process is west of UTC
  files,       \* the listing of the input directory, after the filter
  mainpc,      \* where the top-level async function stands
  i,           \* the index in files of the file of the main loop
  attempted,   \* the files processFile / preprocessFile was called for
  fpc,         \* where the processing of file i stands
  outBad,      \* the output path of file i cannot be written
  wsErr,       \* the files whose write stream holds an 'error' to emit
  log,         \* what was logged: <<level, event, file>>
  allHeaders,  \* the Set of collectUniqueHeaders
  scan,        \* the index of the file collectUniqueHeaders reads
  unified,     \* the array preprocessAllFiles got from collectUniqueHeaders
  cur,         \* the row object in hand, <<>> when none
  rec,         \* the record built from cur
  started,     \* rows of file i whose handling has started
  completed,   \* rows of file i whose handling (and write) has completed
  out,         \* per file, the lines written: 0 the header line, n row n
  pending,     \* per file, the writes queued in its write stream
  delivered,   \* metrics: per row delivered, whether processRow rejects for it
  inflight,    \* metrics: the rows whose 'data' handler awaits processRow
  flowing,     \* metrics: the stream is in flowing mode
  rowCount,    \* metrics: processFile's rowCount
  errorCount,  \* metrics: processFile's errorCount
  settled,     \* metrics: how the promise of processFile settled
  totals,      \* metrics: totalRowCount and totalErrorCount of main
  summary,     \* metrics: the summary was printed
  call,        \* a helper function called on its own: its name and arguments
  result       \* what that call returned, once it has returned

vars ==
  <<prog, proc, tzWest, files, mainpc, i, attempted, fpc, outBad, wsErr, log,
    allHeaders, scan, unified, cur, rec, started, completed, out, pending,
    delivered, inflight, flowing, rowCount, errorCount, settled, totals,
    summary, call, result>>

fileVars == <<cur, rec, started, completed>>
schemaVars == <<allHeaders, scan, unified>>
metricVars ==
  <<delivered, inflight, flowing, rowCount, errorCount, settled, totals,
    summary>>
envVars == <<prog, tzWest, files, call, result>>

\* no helper function is called on its own while a program runs
NoCall == [fn |-> "none"]
NoResult == [done |-> FALSE]

NFiles == Len(files)

\* the promise of processFile: pending, resolved with the metrics, or rejected
Pending == [state |-> "pending", rowCount |-> 0, errorCount |-> 0]
Rejected == [state |-> "rejected", rowCount |-> 0, errorCount |-> 0]
Resolved(rows, errors) ==
  [state |-> "resolved", rowCount |-> rows, errorCount |-> errors]

Init ==
  /\ prog \in {"metrics", "unified", "ndjson"}
  /\ proc = "running"
  /\ tzWest \in (IF prog = "unified" THEN BOOLEAN ELSE {FALSE})
  /\ files \in Listings
  /\ mainpc = "start"
  /\ i = 0
  /\ attempted = {}
  /\ fpc = "idle"
  /\ outBad = FALSE
  /\ wsErr = {}
  /\ log = {}
  /\ allHeaders = {}
  /\ scan = 0
  /\ unified = <<>>
  /\ cur = <<>>
  /\ rec = <<>>
  /\ started = 0
  /\ completed = 0
  /\ out = [f \in DOMAIN files |-> <<>>]
  /\ pending = [f \in DOMAIN files |-> <<>>]
  /\ delivered = <<>>
  /\ inflight = {}
  /\ flowing = FALSE
  /\ rowCount = 0
  /\ errorCount = 0
  /\ settled = Pending
  /\ totals = [rows |-> 0, errors |-> 0]
  /\ summary = FALSE
  /\ call = NoCall
  /\ result = NoResult

Logged(level, event, file) == log' = log \cup {<<level, event, file>>}

\* ------------------------------------------------------------------ preprocess.ts
\* preprocessAllFiles up to the call of collectUniqueHeaders
U_Start ==
  /\ proc = "running" /\ prog = "unified" /\ mainpc = "start"
  /\ IF NFiles = 0
     THEN /\ mainpc' = "done"
          /\ Logged("warn", "no files", 0)
          /\ scan' = scan
     ELSE /\ mainpc' = "collect"
          /\ Logged("info", "header collection", 0)
          /\ scan' = 1
  /\ UNCHANGED <<proc, envVars, i, attempted, fpc, outBad, wsErr, allHeaders,
                 unified, fileVars, out, pending, metricVars>>

\* collectUniqueHeaders, one file: the parser emits 'headers'
U_ScanHeaders ==
  /\ proc = "running" /\ prog = "unified" /\ mainpc = "collect"
  /\ scan <= NFiles
  /\ files[scan].kind = "text"
  /\ allHeaders' = allHeaders \cup Range(ParsedHeaders(files[scan]))
  /\ scan' = scan + 1
  /\ UNCHANGED <<proc, envVars, mainpc, i, attempted, fpc, outBad, wsErr, log,
                 unified, fileVars, out, pending, metricVars>>

\* collectUniqueHeaders, one file: the parser emits 'error' before 'headers';
\* the promise rejects and the catch of the loop logs
U_ScanParserError ==
  /\ proc = "running" /\ prog = "unified" /\ mainpc = "collect"
  /\ scan <= NFiles
  /\ files[scan].kind = "badheader"
  /\ log' = log \cup {<<"error", "reading headers", scan>>,
                      <<"error", "header collection failed", scan>>}
  /\ scan' = scan + 1
  /\ UNCHANGED <<proc, envVars, mainpc, i, attempted, fpc, outBad, wsErr,
                 allHeaders, unified, fileVars, out, pending, metricVars>>

\* collectUniqueHeaders, one file: the file cannot be read. The 'error' is
\* emitted by the fs read stream, which has no 'error' listener (the listener
\* of line 90 is on the parser the stream is piped into): uncaught exception
U_ScanReadError ==
  /\ proc = "running" /\ prog = "unified" /\ mainpc = "collect"
  /\ scan <= NFiles
  /\ files[scan].kind = "unreadable"
  /\ proc' = "crashed"
  /\ UNCHANGED <<envVars, mainpc, i, attempted, fpc, outBad, wsErr, log,
                 schemaVars, fileVars, out, pending, metricVars>>

\* collectUniqueHeaders, one file: the file has no line, so the parser emits
\* neither 'headers' nor 'error' and the promise of lines 75-96 never settles;
\* with nothing left to run the process ends
U_ScanNoHeader ==
  /\ proc = "running" /\ prog = "unified" /\ mainpc = "collect"
  /\ scan <= NFiles
  /\ files[scan].kind = "empty"
  /\ proc' = "exited"
  /\ UNCHANGED <<envVars, mainpc, i, attempted, fpc, outBad, wsErr, log,
                 schemaVars, fileVars, out, pending, metricVars>>

\* the mutant of U_CollectReturn that returns inside the loop over the files
U_CollectReturnEarly ==
  /\ proc = "running" /\ prog = "unified" /\ mainpc = "collect"
  /\ scan >= 2
  /\ unified' = SortSet(allHeaders)
  /\ mainpc' = "loop"
  /\ i' = 1
  /\ Logged("info", "collected", 0)
  /\ UNCHANGED <<proc, envVars, attempted, fpc, outBad, wsErr, allHeaders,
                 scan, fileVars, out, pending, metricVars>>

\* the mutant of U_CollectReturn that returns the headers unsorted
U_CollectReturnUnsorted ==
  /\ proc = "running" /\ prog = "unified" /\ mainpc = "collect"
  /\ scan = NFiles + 1
  /\ \E order \in [1..Cardinality(allHeaders) -> allHeaders] :
       /\ Range(order) = allHeaders
       /\ unified' = order
  /\ mainpc' = "loop"
  /\ i' = 1
  /\ Logged("info", "collected", 0)
  /\ UNCHANGED <<proc, envVars, attempted, fpc, outBad, wsErr, allHeaders,
                 scan, fileVars, out, pending, metricVars>>

\* collectUniqueHeaders returns Array.from(allHeaders).sort()
U_CollectReturn ==
  /\ proc = "running" /\ prog = "unified" /\ mainpc = "collect"
  /\ scan = NFiles + 1
  /\ unified' = SortSet(allHeaders)
  /\ mainpc' = "loop"
  /\ i' = 1
  /\ Logged("info", "collected", 0)
  /\ UNCHANGED <<proc, envVars, attempted, fpc, outBad, wsErr, allHeaders,
                 scan, fileVars, out, pending, metricVars>>

\* preprocessFile is called for file i: the streams and the writer are made
\* and the pipeline starts. The write stream of line 184 opens the output
\* path at once and nothing listens to its 'error'
U_FileStart ==
  /\ proc = "running" /\ prog = "unified" /\ mainpc = "loop"
  /\ i <= NFiles /\ fpc = "idle"
  /\ attempted' = attempted \cup {i}
  /\ \E bad \in BOOLEAN :
       /\ outBad' = bad
       /\ wsErr' = IF bad THEN wsErr \cup {i} ELSE wsErr
  /\ fpc' = "pull"
  /\ started' = 0 /\ completed' = 0
  /\ cur' = <<>> /\ rec' = <<>>
  /\ Logged("info", "processing", i)
  /\ UNCHANGED <<proc, envVars, mainpc, i, schemaVars, out, pending,
                 metricVars>>

\* the parser delivers the next row; the first generator builds the record
\* and yields it, the second generator hands it to csvWriter.writeRecords
U_Row ==
  /\ proc = "running" /\ prog = "unified" /\ mainpc = "loop"
  /\ fpc = "pull" /\ files[i].kind = "text"
  /\ started < MaxRows
  /\ \E cells \in CellRows(ParsedHeaders(files[i])) :
       LET row == RowObject(ParsedHeaders(files[i]), cells)
       IN /\ cur' = row
          /\ \E parsedDate \in DateOutcomes(RawOrEmpty(row, KeyData), tzWest) :
               rec' = transformRow(row, unified, parsedDate)
  /\ started' = started + 1
  /\ fpc' = "write"
  /\ UNCHANGED <<proc, envVars, mainpc, i, attempted, outBad, wsErr, log,
                 schemaVars, completed, out, pending, metricVars>>

\* writeRecords resolves: the record is in the output file, after the header
\* line when it is the first record written
U_WriteDone ==
  /\ proc = "running" /\ prog = "unified" /\ mainpc = "loop"
  /\ fpc = "write" /\ ~outBad
  /\ out' = [out EXCEPT ![i] =
               (IF out[i] = <<>> THEN <<0>> ELSE out[i]) \o <<started>>]
  /\ completed' = completed + 1
  /\ cur' = <<>> /\ rec' = <<>>
  /\ fpc' = "pull"
  /\ UNCHANGED <<proc, envVars, mainpc, i, attempted, outBad, wsErr, log,
                 schemaVars, started, pending, metricVars>>

\* writeRecords rejects: the pipeline rejects and the catch of preprocessFile
\* logs the failure of the file
U_WriteFail ==
  /\ proc = "running" /\ prog = "unified" /\ mainpc = "loop"
  /\ fpc = "write" /\ outBad
  /\ Logged("error", "processing failed", i)
  /\ cur' = <<>> /\ rec' = <<>>
  /\ fpc' = "idle"
  /\ i' = i + 1
  /\ UNCHANGED <<proc, envVars, mainpc, attempted, outBad, wsErr, schemaVars,
                 started, completed, out, pending, metricVars>>

\* the stream-level faults the pipeline of a file may meet
PipelineFaults(f) ==
  IF f.kind = "unreadable" THEN {"unreadable"}
  ELSE IF f.kind \in {"text", "badheader"} THEN {"parser"}
  ELSE {}

\* the read stream or the parser emits 'error': the pipeline rejects and the
\* catch of preprocessFile logs the failure of the file
U_Fault ==
  /\ proc = "running" /\ prog = "unified" /\ mainpc = "loop"
  /\ fpc = "pull"
  /\ \E fault \in PipelineFaults(files[i]) :
       Logged("error", "processing failed", i)
  /\ fpc' = "idle"
  /\ i' = i + 1
  /\ UNCHANGED <<proc, envVars, mainpc, attempted, outBad, wsErr, schemaVars,
                 fileVars, out, pending, metricVars>>

\* the input ends: the pipeline resolves and the success of the file is logged
U_End ==
  /\ proc = "running" /\ prog = "unified" /\ mainpc = "loop"
  /\ fpc = "pull" /\ files[i].kind \in {"text", "empty"}
  /\ Logged("info", "processed", i)
  /\ fpc' = "idle"
  /\ i' = i + 1
  /\ UNCHANGED <<proc, envVars, mainpc, attempted, outBad, wsErr, schemaVars,
                 fileVars, out, pending, metricVars>>

\* the loop of preprocessAllFiles is over
U_Done ==
  /\ proc = "running" /\ prog = "unified" /\ mainpc = "loop"
  /\ i = NFiles + 1
  /\ mainpc' = "done"
  /\ Logged("info", "completed", 0)
  /\ UNCHANGED <<proc, envVars, i, attempted, fpc, outBad, wsErr, schemaVars,
                 fileVars, out, pending, metricVars>>

\* ------------------------------------------------------------------ index.ts
\* main up to the loop over the files
M_Start ==
  /\ proc = "running" /\ prog = "metrics" /\ mainpc = "start"
  /\ IF NFiles = 0
     THEN /\ mainpc' = "done"
          /\ Logged("info", "no files", 0)
          /\ i' = i
     ELSE /\ mainpc' = "loop"
          /\ i' = 1
          /\ log' = log
  /\ UNCHANGED <<proc, envVars, attempted, fpc, outBad, wsErr, schemaVars,
                 fileVars, out, pending, metricVars>>

\* processFile is called for file i: the counters are fresh and the pass
\* that counts the rows starts
M_FileStart ==
  /\ proc = "running" /\ prog = "metrics" /\ mainpc = "loop"
  /\ i <= NFiles /\ fpc = "idle"
  /\ attempted' = attempted \cup {i}
  /\ fpc' = "count"
  /\ rowCount' = 0 /\ errorCount' = 0
  /\ delivered' = <<>> /\ inflight' = {}
  /\ flowing' = FALSE
  /\ settled' = Pending
  /\ Logged("info", "processing", i)
  /\ UNCHANGED <<proc, envVars, mainpc, i, outBad, wsErr, schemaVars,
                 fileVars, out, pending, totals, summary>>

\* the counting pass ends: the second stream is made and its handlers are
\* registered, which sets it flowing
M_CountEnd ==
  /\ proc = "running" /\ prog = "metrics" /\ mainpc = "loop"
  /\ fpc = "count" /\ files[i].kind \in {"text", "empty"}
  /\ fpc' = "stream"
  /\ flowing' = TRUE
  /\ UNCHANGED <<proc, envVars, mainpc, i, attempted, outBad, wsErr, log,
                 schemaVars, fileVars, out, pending, delivered, inflight,
                 rowCount, errorCount, settled, totals, summary>>

\* the parser of the counting pass emits 'error': the promise rejects
M_CountError ==
  /\ proc = "running" /\ prog = "metrics" /\ mainpc = "loop"
  /\ fpc = "count" /\ files[i].kind \in {"text", "badheader"}
  /\ settled' = Rejected
  /\ fpc' = "settled"
  /\ Logged("error", "counting rows", i)
  /\ UNCHANGED <<proc, envVars, mainpc, i, attempted, outBad, wsErr,
                 schemaVars, fileVars, out, pending, delivered, inflight,
                 flowing, rowCount, errorCount, totals, summary>>

\* the file cannot be read: the fs read stream emits 'error' and has no
\* listener for it (the listeners are on the parser): uncaught exception
M_ReadError ==
  /\ proc = "running" /\ prog = "metrics" /\ mainpc = "loop"
  /\ fpc = "count" /\ files[i].kind = "unreadable"
  /\ proc' = "crashed"
  /\ UNCHANGED <<envVars, mainpc, i, attempted, fpc, outBad, wsErr, log,
                 schemaVars, fileVars, out, pending, metricVars>>

\* the mutant of M_Data whose handler does not pause the stream
M_DataNoPause ==
  /\ proc = "running" /\ prog = "metrics" /\ mainpc = "loop"
  /\ fpc = "stream" /\ flowing /\ files[i].kind = "text"
  /\ Len(delivered) < MaxRows
  /\ \E rejects \in BOOLEAN : delivered' = Append(delivered, rejects)
  /\ inflight' = inflight \cup {Len(delivered) + 1}
  /\ UNCHANGED <<proc, envVars, mainpc, i, attempted, fpc, outBad, wsErr, log,
                 schemaVars, fileVars, out, pending, flowing, rowCount,
                 errorCount, settled, totals, summary>>

\* the stream emits 'data': the handler pauses the stream and awaits
\* processRow(row), which will resolve or reject
M_Data ==
  /\ proc = "running" /\ prog = "metrics" /\ mainpc = "loop"
  /\ fpc = "stream" /\ flowing /\ files[i].kind = "text"
  /\ Len(delivered) < MaxRows
  /\ \E rejects \in BOOLEAN : delivered' = Append(delivered, rejects)
  /\ inflight' = inflight \cup {Len(delivered) + 1}
  /\ flowing' = FALSE
  /\ UNCHANGED <<proc, envVars, mainpc, i, attempted, fpc, outBad, wsErr, log,
                 schemaVars, fileVars, out, pending, rowCount, errorCount,
                 settled, totals, summary>>

\* the mutant of M_RowSettled whose catch rethrows: the row error fails the file
M_RowSettledRethrow ==
  /\ proc = "running" /\ prog = "metrics"
  /\ \E k \in inflight :
       /\ inflight' = inflight \ {k}
       /\ errorCount' = errorCount + (IF delivered[k] THEN 1 ELSE 0)
       /\ settled' = IF delivered[k] /\ settled = Pending THEN Rejected
                     ELSE settled
       /\ fpc' = IF delivered[k] /\ settled = Pending THEN "settled" ELSE fpc
  /\ rowCount' = rowCount + 1
  /\ flowing' = TRUE
  /\ UNCHANGED <<envVars, proc, mainpc, i, attempted, outBad, wsErr, log,
                 schemaVars, fileVars, out, pending, delivered, totals,
                 summary>>

\* processRow settles for a row in flight: catch adds 1 to errorCount when it
\* rejected, finally adds 1 to rowCount and resumes the stream
M_RowSettled ==
  /\ proc = "running" /\ prog = "metrics"
  /\ \E k \in inflight :
       /\ inflight' = inflight \ {k}
       /\ errorCount' = errorCount + (IF delivered[k] THEN 1 ELSE 0)
  /\ rowCount' = rowCount + 1
  /\ flowing' = TRUE
  /\ UNCHANGED <<envVars, proc, mainpc, i, attempted, fpc, outBad, wsErr, log,
                 schemaVars, fileVars, out, pending, delivered, settled,
                 totals, summary>>

\* the stream, flowing and with no row left, emits 'end': the promise
\* resolves with the counters as they stand
M_End ==
  /\ proc = "running" /\ prog = "metrics" /\ mainpc = "loop"
  /\ fpc = "stream" /\ flowing
  /\ settled' = Resolved(rowCount, errorCount)
  /\ fpc' = "settled"
  /\ Logged("info", "completed file", i)
  /\ UNCHANGED <<proc, envVars, mainpc, i, attempted, outBad, wsErr,
                 schemaVars, fileVars, out, pending, delivered, inflight,
                 flowing, rowCount, errorCount, totals, summary>>

\* the parser of the second stream emits 'error': the promise rejects
M_StreamError ==
  /\ proc = "running" /\ prog = "metrics" /\ mainpc = "loop"
  /\ fpc = "stream" /\ files[i].kind = "text"
  /\ settled' = Rejected
  /\ fpc' = "settled"
  /\ Logged("error", "processing failed", i)
  /\ UNCHANGED <<proc, envVars, mainpc, i, attempted, outBad, wsErr,
                 schemaVars, fileVars, out, pending, delivered, inflight,
                 flowing, rowCount, errorCount, totals, summary>>

\* the await of line 167 gets the metrics of the file: main adds them to
\* its totals and goes to the next file
M_AwaitResolved ==
  /\ proc = "running" /\ prog = "metrics" /\ mainpc = "loop"
  /\ fpc = "settled" /\ settled.state = "resolved"
  /\ totals' = [rows |-> totals.rows + settled.rowCount,
                errors |-> totals.errors + settled.errorCount]
  /\ fpc' = "idle"
  /\ i' = i + 1
  /\ UNCHANGED <<proc, envVars, mainpc, attempted, outBad, wsErr, log,
                 schemaVars, fileVars, out, pending, delivered, inflight,
                 flowing, rowCount, errorCount, settled, summary>>

\* the await of line 167 throws: control leaves the loop for the catch of
\* line 209, which logs the error; main returns
M_AwaitRejected ==
  /\ proc = "running" /\ prog = "metrics" /\ mainpc = "loop"
  /\ fpc = "settled" /\ settled.state = "rejected"
  /\ mainpc' = "caught"
  /\ Logged("error", "main", 0)
  /\ UNCHANGED <<proc, envVars, i, attempted, fpc, outBad, wsErr, schemaVars,
                 fileVars, out, pending, metricVars>>

\* the loop is over: the summary is printed
M_Summary ==
  /\ proc = "running" /\ prog = "metrics" /\ mainpc = "loop"
  /\ i = NFiles + 1
  /\ summary' = TRUE
  /\ mainpc' = "done"
  /\ Logged("info", "summary", 0)
  /\ UNCHANGED <<proc, envVars, i, attempted, fpc, outBad, wsErr, schemaVars,
                 fileVars, out, pending, delivered, inflight, flowing,
                 rowCount, errorCount, settled, totals>>

\* ------------------------------------------------------------------ NDJSON preprocessor
\* preprocessAllFiles up to the loop over the files
N_Start ==
  /\ proc = "running" /\ prog = "ndjson" /\ mainpc = "start"
  /\ IF NFiles = 0
     THEN /\ mainpc' = "done"
          /\ Logged("warn", "no files", 0)
          /\ i' = i
     ELSE /\ mainpc' = "loop"
          /\ i' = 1
          /\ log' = log
  /\ UNCHANGED <<proc, envVars, attempted, fpc, outBad, wsErr, schemaVars,
                 fileVars, out, pending, metricVars>>

\* preprocessFile is called for file i and detectDelimiter throws on a file
\* that cannot be read: the catch logs the failure of the file
N_FileUnreadable ==
  /\ proc = "running" /\ prog = "ndjson" /\ mainpc = "loop"
  /\ i <= NFiles /\ fpc = "idle"
  /\ files[i].kind = "unreadable"
  /\ attempted' = attempted \cup {i}
  /\ log' = log \cup {<<"info", "processing", i>>,
                      <<"error", "processing failed", i>>}
  /\ i' = i + 1
  /\ UNCHANGED <<proc, envVars, mainpc, fpc, outBad, wsErr, schemaVars,
                 fileVars, out, pending, metricVars>>

\* preprocessFile is called for file i: the delimiter is detected, the
\* streams are made and the pipeline starts. The write stream opens the
\* output path at once and nothing listens to its 'error'
N_FileStart ==
  /\ proc = "running" /\ prog = "ndjson" /\ mainpc = "loop"
  /\ i <= NFiles /\ fpc = "idle"
  /\ files[i].kind # "unreadable"
  /\ attempted' = attempted \cup {i}
  /\ \E bad \in BOOLEAN :
       /\ outBad' = bad
       /\ wsErr' = IF bad THEN wsErr \cup {i} ELSE wsErr
  /\ fpc' = "pull"
  /\ started' = 0 /\ completed' = 0
  /\ cur' = <<>> /\ rec' = <<>>
  /\ log' = log \cup {<<"info", "processing", i>>}
                \cup (IF DelimiterFound(files[i].line) THEN {}
                      ELSE {<<"warn", "no delimiter", i>>})
  /\ UNCHANGED <<proc, envVars, mainpc, i, schemaVars, out, pending,
                 metricVars>>

\* the Transform gets the next row: it builds the record, queues its line in
\* the write stream with writeStream.write and calls back at once. The rows
\* of the parser hold strings only, and nothing in the try block throws for
\* them
N_Row ==
  /\ proc = "running" /\ prog = "ndjson" /\ mainpc = "loop"
  /\ fpc = "pull" /\ files[i].kind = "text"
  /\ started < MaxRows
  /\ \E cells \in CellRows(RawHeaders(files[i])) :
       LET row == NdRowObject(RawHeaders(files[i]), cells)
       IN /\ cur' = row
          /\ rec' = ndjsonRecord(row)
          /\ log' = log \cup {<<"warn", w, i>> : w \in ndjsonWarnings(row)}
  /\ started' = started + 1
  /\ pending' = [pending EXCEPT ![i] = Append(@, started + 1)]
  /\ UNCHANGED <<proc, envVars, mainpc, i, attempted, fpc, outBad, wsErr,
                 schemaVars, completed, out, metricVars>>

\* the write stream of the file in progress, its path opened, writes the
\* line at the head of its queue to the output file
N_WriteFlushed ==
  /\ proc = "running" /\ prog = "ndjson" /\ mainpc = "loop"
  /\ fpc = "pull"
  /\ pending[i] # <<>>
  /\ i \notin wsErr
  /\ out' = [out EXCEPT ![i] = Append(@, Head(pending[i]))]
  /\ pending' = [pending EXCEPT ![i] = Tail(@)]
  /\ completed' = completed + 1
  /\ UNCHANGED <<proc, envVars, mainpc, i, attempted, fpc, outBad, wsErr, log,
                 schemaVars, cur, rec, started, metricVars>>

\* the write stream of a file whose preprocessFile has returned writes what
\* is left in its queue; nothing ever ends or awaits that stream
N_WriteLeftover ==
  /\ proc = "running" /\ prog = "ndjson"
  /\ \E f \in DOMAIN pending :
       /\ f < i \/ mainpc = "done"
       /\ pending[f] # <<>>
       /\ f \notin wsErr
       /\ out' = [out EXCEPT ![f] = @ \o pending[f]]
       /\ pending' = [pending EXCEPT ![f] = <<>>]
  /\ UNCHANGED <<proc, envVars, mainpc, i, attempted, fpc, outBad, wsErr, log,
                 schemaVars, fileVars, metricVars>>

\* the read stream or the parser emits 'error': the pipeline rejects and the
\* catch of preprocessFile logs the failure of the file
N_Fault ==
  /\ proc = "running" /\ prog = "ndjson" /\ mainpc = "loop"
  /\ fpc = "pull"
  /\ \E fault \in PipelineFaults(files[i]) :
       Logged("error", "processing failed", i)
  /\ cur' = <<>> /\ rec' = <<>>
  /\ fpc' = "idle"
  /\ i' = i + 1
  /\ UNCHANGED <<proc, envVars, mainpc, attempted, outBad, wsErr, schemaVars,
                 started, completed, out, pending, metricVars>>

\* the input ends and the Transform finishes: the pipeline resolves and the
\* success of the file is logged
N_End ==
  /\ proc = "running" /\ prog = "ndjson" /\ mainpc = "loop"
  /\ fpc = "pull" /\ files[i].kind \in {"text", "empty"}
  /\ Logged("info", "processed", i)
  /\ cur' = <<>> /\ rec' = <<>>
  /\ fpc' = "idle"
  /\ i' = i + 1
  /\ UNCHANGED <<proc, envVars, mainpc, attempted, outBad, wsErr, schemaVars,
                 started, completed, out, pending, metricVars>>

\* the loop of preprocessAllFiles is over
N_Done ==
  /\ proc = "running" /\ prog = "ndjson" /\ mainpc = "loop"
  /\ i = NFiles + 1
  /\ mainpc' = "done"
  /\ Logged("info", "completed", 0)
  /\ UNCHANGED <<proc, envVars, i, attempted, fpc, outBad, wsErr, schemaVars,
                 fileVars, out, pending, metricVars>>

\* ------------------------------------------------------------------ the process
\* a write stream emits the 'error' of an output path it could not open;
\* no listener is registered for it: uncaught exception
WriteStreamError ==
  /\ proc = "running"
  /\ wsErr # {}
  /\ proc' = "crashed"
  /\ cur' = <<>> /\ rec' = <<>>
  /\ UNCHANGED <<envVars, mainpc, i, attempted, fpc, outBad, wsErr, log,
                 schemaVars, started, completed, out, pending, metricVars>>

\* the top-level function has returned and no event is left
Exit ==
  /\ proc = "running"
  /\ mainpc \in {"done", "caught"}
  /\ wsErr = {}
  /\ inflight = {}
  /\ \A f \in DOMAIN pending : pending[f] = <<>>
  /\ proc' = "exited"
  /\ UNCHANGED <<envVars, mainpc, i, attempted, fpc, outBad, wsErr, log,
                 schemaVars, fileVars, out, pending, metricVars>>

\* ------------------------------------------------------------------ specifications
NextMetrics ==
  \/ M_Start
  \/ M_FileStart
  \/ M_CountEnd
  \/ M_CountError
  \/ M_ReadError
  \/ M_Data
  \/ M_RowSettled
  \/ M_End
  \/ M_StreamError
  \/ M_AwaitResolved
  \/ M_AwaitRejected
  \/ M_Summary
  \/ Exit

NextUnified ==
  \/ U_Start
  \/ U_ScanHeaders
  \/ U_ScanParserError
  \/ U_ScanReadError
  \/ U_ScanNoHeader
  \/ U_CollectReturn
  \/ U_FileStart
  \/ U_Row
  \/ U_WriteDone
  \/ U_WriteFail
  \/ U_Fault
  \/ U_End
  \/ U_Done
  \/ WriteStreamError
  \/ Exit

NextNdjson ==
  \/ N_Start
  \/ N_FileUnreadable
  \/ N_FileStart
  \/ N_Row
  \/ N_WriteFlushed
  \/ N_WriteLeftover
  \/ N_Fault
  \/ N_End
  \/ N_Done
  \/ WriteStreamError
  \/ Exit

Next == NextMetrics \/ NextUnified \/ NextNdjson

\* any of the three programs
Spec == Init /\ [][Next]_vars

\* the metrics batch runner alone
InitMetrics == Init /\ prog = "metrics"
SpecMetrics == InitMetrics /\ [][NextMetrics]_vars

\* the schema-unified preprocessor alone
InitUnified == Init /\ prog = "unified"
SpecUnified == InitUnified /\ [][NextUnified]_vars

\* the NDJSON preprocessor alone
InitNdjson == Init /\ prog = "ndjson"
SpecNdjson == InitNdjson /\ [][NextNdjson]_vars

\* ------------------------------------------------------------------ helper functions on their own
\* A helper function is called once with arguments of a bounded set and
\* returns: call holds the name and the arguments, result the value.
FnInit(calls, zones) ==
  /\ prog = "functions"
  /\ proc = "running"
  /\ tzWest \in zones
  /\ files = <<>>
  /\ mainpc = "start"
  /\ i = 0
  /\ attempted = {}
  /\ fpc = "idle"
  /\ outBad = FALSE
  /\ wsErr = {}
  /\ log = {}
  /\ allHeaders = {}
  /\ scan = 0
  /\ unified = <<>>
  /\ cur = <<>>
  /\ rec = <<>>
  /\ started = 0
  /\ completed = 0
  /\ out = <<>>
  /\ pending = <<>>
  /\ delivered = <<>>
  /\ inflight = {}
  /\ flowing = FALSE
  /\ rowCount = 0
  /\ errorCount = 0
  /\ settled = Pending
  /\ totals = [rows |-> 0, errors |-> 0]
  /\ summary = FALSE
  /\ call \in calls
  /\ result = NoResult

\* the call returns value
Returns(value) ==
  /\ prog = "functions" /\ ~result.done
  /\ result' = [done |-> TRUE, value |-> value]
  /\ UNCHANGED <<prog, proc, tzWest, files, mainpc, i, attempted, fpc, outBad,
                 wsErr, log, schemaVars, fileVars, out, pending, metricVars,
                 call>>

Returned(fn) == call.fn = fn /\ result.done

\* ---- the output path of a file
NameCsv == <<"s", "i", "n", "i", "s", "t", "r", "o", "s", ".", "c", "s", "v">>
NameTsv == <<"s", "i", "n", "i", "s", "t", "r", "o", "s", ".", "t", "s", "v">>
NameTxt == <<"s", "i", "n", "i", "s", "t", "r", "o", "s", ".", "t", "x", "t">>
NameTwoDots ==
  <<"s", "i", "n", "i", "s", "t", "r", "o", "s", ".", "a", ".", "c", "s",
  "v">>
NameOther == <<"o", "u", "t", "r", "o", "s", ".", "c", "s", "v">>

NamePool == {NameCsv, NameTsv, NameTxt, NameTwoDots, NameOther}

Sinistros == <<"s", "i", "n", "i", "s", "t", "r", "o", "s">>
DotCsv == <<".", "c", "s", "v">>
DotTsv == <<".", "t", "s", "v">>
DotTxt == <<".", "t", "x", "t">>
ProcessedCsv ==
  <<"_", "p", "r", "o", "c", "e", "s", "s", "e", "d", ".", "c", "s", "v">>
ProcessedNdjson ==
  <<"_", "p", "r", "o", "c", "e", "s", "s", "e", "d", ".", "n", "d", "j",
  "s", "o", "n">>

\* the filter of preprocessAllFiles of preprocess.ts on the directory listing
U_Accepts(file) ==
  /\ StartsWith(file, Sinistros)
  /\ \/ EndsWith(file, DotCsv)
     \/ EndsWith(file, DotTsv)
     \/ EndsWith(file, DotTxt)

\* the NDJSON preprocessor takes every entry of the directory
N_Accepts(file) == TRUE

\* the index of the last "." of a name, 0 when there is none
LastDot(name) ==
  LET dots == {k \in DOMAIN name : name[k] = "."}
  IN IF dots = {} THEN 0 ELSE CHOOSE k \in dots : \A j \in dots : j <= k

\* path.parse(fileName).name: the name without its last extension
PathParseName(fileName) ==
  IF LastDot(fileName) > 1 THEN SubSeq(fileName, 1, LastDot(fileName) - 1)
  ELSE fileName

\* outputFileName of preprocessFile of preprocess.ts
U_OutputFileName(fileName) == PathParseName(fileName) \o ProcessedCsv

\* outputFileName of preprocessFile of the NDJSON preprocessor:
\* fileName.replace(/\.(csv|tsv)$/, "_processed.ndjson")
N_OutputFileName(fileName) ==
  IF EndsWith(fileName, DotCsv) \/ EndsWith(fileName, DotTsv)
  THEN SubSeq(fileName, 1, Len(fileName) - 4) \o ProcessedNdjson
  ELSE fileName

\* two entries of a directory and the mode of the preprocessor
OutputNameCalls ==
  [fn : {"outputFileName"}, mode : {"unified", "ndjson"},
   first : NamePool, second : NamePool]

\* preprocessFile computes the output name of each of the two files
Fn_OutputFileName ==
  /\ call.fn = "outputFileName"
  /\ Returns(IF call.mode = "unified"
             THEN <<U_OutputFileName(call.first),
                    U_OutputFileName(call.second)>>
             ELSE <<N_OutputFileName(call.first),
                    N_OutputFileName(call.second)>>)

\* the batch of the call holds both files
BothAccepted ==
  IF call.mode = "unified"
  THEN U_Accepts(call.first) /\ U_Accepts(call.second)
  ELSE N_Accepts(call.first) /\ N_Accepts(call.second)

\* ---- the delimiter a file is parsed with
\* a file name extension and a first line
SeparatorCalls ==
  [fn : {"separators"}, ext : {".csv", ".tsv", ".txt"},
   line : Strings({"a", ",", ";", "\t"})]

\* the delimiter each reader of the file passes to its parser: the header
\* scan and the row streaming of preprocess.ts, processFile of index.ts, and
\* preprocessFile of the NDJSON preprocessor
Fn_Separators ==
  /\ call.fn = "separators"
  /\ Returns([scan |-> detectSeparator(call.ext),
              stream |-> detectSeparator(call.ext),
              metrics |-> M_detectSeparator(call.ext),
              ndjson |-> detectDelimiter(call.line)])

\* the content of a file: lines of "a" and delimiters
DelimiterCalls ==
  [fn : {"detectDelimiter"}, content : Strings({"a", ",", ";", "\t", "\n"})]

\* detectDelimiter reads the file and returns; warned: it logged the warning
Fn_DetectDelimiter ==
  /\ call.fn = "detectDelimiter"
  /\ Returns([delimiter |-> detectDelimiter(FirstLine(call.content)),
              warned |-> ~DelimiterFound(FirstLine(call.content))])

\* ---- standardizeHeader
HeaderCalls ==
  [fn : {"standardizeHeader"},
   header : Strings({"A", "b", "1", " ", "-", "_"})]

\* both copies of standardizeHeader, and the copy of preprocess.ts applied to
\* its own result
Fn_StandardizeHeader ==
  /\ call.fn = "standardizeHeader"
  /\ Returns([once |-> standardizeHeader(call.header),
              twice |-> standardizeHeader(standardizeHeader(call.header)),
              metrics |-> M_standardizeHeader(call.header)])

\* ---- parseNumericField
\* "1,5", "abc", "Infinity", "-Infinity", and the short texts of 1 , a
NumericTexts ==
  { <<"1", ",", "5">>, <<"a", "b", "c">>,
    <<"I", "n", "f", "i", "n", "i", "t", "y">>,
    <<"-", "I", "n", "f", "i", "n", "i", "t", "y">> }
    \cup Strings({"1", ",", "a"})

NumericCalls == [fn : {"parseNumericField"}, value : NumericTexts]

Fn_ParseNumericField ==
  /\ call.fn = "parseNumericField"
  /\ Returns(parseNumericField(call.value))

\* ---- two files through collectUniqueHeaders and the row transform
\* file A: header Data,Hora,Tipo and the row 01/03/2024, 14:5, Colisão;
\* file B: header data;situacao and the row 2024-03-02, Resolvido
ScenarioA ==
  [line |-> <<"D", "a", "t", "a", ",", "H", "o", "r", "a", ",", "T", "i", "p", "o">>,
   row |-> <<"0", "1", "/", "0", "3", "/", "2", "0", "2", "4", ",", "1", "4", ":", "5", ",">>
             \o <<"C", "o", "l", "i", "s", "ã", "o">>]
ScenarioB ==
  [line |-> <<"d", "a", "t", "a", ";", "s", "i", "t", "u", "a", "c", "a", "o">>,
   row |-> <<"2", "0", "2", "4", "-", "0", "3", "-", "0", "2", ";">>
             \o <<"R", "e", "s", "o", "l", "v", "i", "d", "o">>]

\* the extensions of the names of the two files
ScenarioCalls ==
  [fn : {"scenario"}, extA : {".csv"}, extB : {".tsv", ".csv"}]

\* collectUniqueHeaders on the two files, then the row transform of
\* preprocessFile on the row of each
Fn_Scenario ==
  /\ call.fn = "scenario"
  /\ LET fileA == TextFile(call.extA, ScenarioA.line)
         fileB == TextFile(call.extB, ScenarioB.line)
         schema == SortSet(Range(ParsedHeaders(fileA))
                             \cup Range(ParsedHeaders(fileB)))
         rowA == RowObject(ParsedHeaders(fileA),
                           Split(ScenarioA.row, detectSeparator(call.extA)))
         rowB == RowObject(ParsedHeaders(fileB),
                           Split(ScenarioB.row, detectSeparator(call.extB)))
     IN \E dateA \in DateOutcomes(RawOrEmpty(rowA, KeyData), tzWest),
           dateB \in DateOutcomes(RawOrEmpty(rowB, KeyData), tzWest) :
          Returns([schema |-> schema,
                   recordA |-> transformRow(rowA, schema, dateA),
                   recordB |-> transformRow(rowB, schema, dateB)])

\* ---- the record of the NDJSON preprocessor
KeyOther == <<"x">>

\* the row objects the Transform may get: any of the consumed keys and one
\* other key, each present or not, with an empty or a non-empty value
NdjsonRows ==
  LET tipoKeys == {KeyNaturezaAcidente, KeyNatureza, KeyTipo}
      keys == ConsumedKeys \cup {KeyOther}
      validTime == <<"1", "4", ":", "0", "5", ":", "0", "0">>
  IN UNION {{row \in [present -> {<<>>, <<"a">>, <<"b">>, validTime}] :
               /\ \A k \in present \ tipoKeys : row[k] # <<"b">>
               /\ \A k \in present \ {KeyHora} : row[k] # validTime} :
            present \in SUBSET keys}

NdjsonCalls == [fn : {"ndjsonTransform"}, row : NdjsonRows]

\* the body of the Transform for one row: the warnings it logs and the
\* records whose lines it hands to writeStream.write
Fn_NdjsonTransform ==
  /\ call.fn = "ndjsonTransform"
  /\ Returns([warned |-> ndjsonWarnings(call.row),
              written |-> <<ndjsonRecord(call.row)>>])

\* ---- the Transform of the NDJSON preprocessor over the rows of a file
\* a row handed to the Transform, and whether building its record raises an
\* exception
TransformInputs ==
  [row : {row \in NdjsonRows : DOMAIN row = {KeyTipo, KeyOther}},
   throws : BOOLEAN]

TransformCalls ==
  [fn : {"transformRows"},
   rows : UNION {[1..n -> TransformInputs] : n \in 0..MaxRows}]

\* the mutant of TransformRows whose exception ends the file
RECURSIVE TransformRowsAborting(_, _)
TransformRowsAborting(rows, acc) ==
  IF acc.lineNumber = Len(rows) THEN acc
  ELSE LET lineNumber == acc.lineNumber + 1
           row == rows[lineNumber].row
       IN IF rows[lineNumber].throws
          THEN [acc EXCEPT !.lineNumber = lineNumber,
                           !.errors = Append(@, [lineNumber |-> lineNumber,
                                                 row |-> row])]
          ELSE TransformRowsAborting(rows,
                 [acc EXCEPT !.lineNumber = lineNumber,
                             !.written = Append(@, ndjsonRecord(row))])

\* the Transform called for each row in turn: lineNumber++, then either the
\* record is handed to writeStream.write, or the catch logs lineNumber and
\* the row; callback() in both cases
RECURSIVE TransformRows(_, _)
TransformRows(rows, acc) ==
  IF acc.lineNumber = Len(rows) THEN acc
  ELSE LET lineNumber == acc.lineNumber + 1
           row == rows[lineNumber].row
       IN TransformRows(rows,
            IF rows[lineNumber].throws
            THEN [acc EXCEPT !.lineNumber = lineNumber,
                             !.errors = Append(@, [lineNumber |-> lineNumber,
                                                   row |-> row])]
            ELSE [acc EXCEPT !.lineNumber = lineNumber,
                             !.written = Append(@, ndjsonRecord(row))])

Fn_TransformRows ==
  /\ call.fn = "transformRows"
  /\ Returns(TransformRows(call.rows,
               [lineNumber |-> 0, written |-> <<>>, errors |-> <<>>]))

\* ---- combineDateTime
\* time texts: accepted as they are, accepted once cut at "." and trimmed,
\* and refused (hour 24, minute 60, second 60, one digit, text after the
\* seconds, nothing before the ".", the empty text)
TimeTexts ==
  { <<"1", "4", ":", "0", "5", ":", "0", "0">>,
    <<"2", "3", ":", "5", "9", ":", "5", "9">>,
    <<"0", "0", ":", "0", "0", ":", "0", "0">>,
    <<"1", "4", ":", "0", "5", ":", "0", "0", ".", "1", "2", "3">>,
    <<" ", "1", "4", ":", "0", "5", ":", "0", "0", " ">>,
    <<"2", "4", ":", "0", "0", ":", "0", "0">>,
    <<"1", "4", ":", "6", "0", ":", "0", "0">>,
    <<"1", "4", ":", "0", "5", ":", "6", "0">>,
    <<"1", "4", ":", "5">>,
    <<"7", ":", "0", "5", ":", "0", "0">>,
    <<"a", "b">>,
    <<"1", "4", ":", "0", "5", ":", "0", "0", ".", "1", ".", "2">>,
    <<".", "1", "4", ":", "0", "5", ":", "0", "0">>,
    <<"1", "4", ":", "0", "5", ":", "0", "0", "Z">>,
    <<>> }

DateTexts ==
  { <<"2", "0", "2", "4", "-", "0", "3", "-", "0", "2">>,
    <<"2", "0", "2", "4", "-", "0", "3", "-", "0", "2", "T", "1", "0", ":", "0", "0", ":", "0", "0">>,
    <<" ", "2", "0", "2", "4", "-", "0", "3", "-", "0", "2", " ">>,
    <<"0", "2", "/", "0", "3", "/", "2", "0", "2", "4">>,
    <<"T">>,
    <<>>,
    <<"a", "T", "b", "T", "c">>,
    <<" ", "a", " ", "T", " ", "b">> }

\* given is FALSE when the second argument is left out (undefined)
CombineCalls ==
  {c \in [fn : {"combineDateTime"}, date : DateTexts, given : BOOLEAN,
          time : TimeTexts] : c.given \/ c.time = <<>>}

\* undefined and "" are both falsy in the test of line 19
Fn_CombineDateTime ==
  /\ call.fn = "combineDateTime"
  /\ Returns([value |-> combineDateTime(call.date, call.time),
              warned |-> ~TimeAccepted(call.time)])

\* ---- normalizeTime
\* the short texts of 7 and ":", and longer ones: already normalized, four
\* components, an empty third component, a long hour, letters
HourTexts ==
  Strings({"7", ":"})
    \cup { <<"7", ":", "5">>,
         <<"7">>,
         <<"0", "7", ":", "0", "5", ":", "0", "0">>,
         <<"1", "4", ":", "0", "5">>,
         <<"1", ":", "2", ":", "3", ":", "4">>,
         <<"1", "4", ":", "5", ":">>,
         <<"1", "2", "3", ":", "4", ":", "5">>,
         <<"a", "b", ":", "c">> }

NormalizeTimeCalls == [fn : {"normalizeTime"}, time : HourTexts]

\* normalizeTime, and normalizeTime of what it returned
Fn_NormalizeTime ==
  /\ call.fn = "normalizeTime"
  /\ Returns([once |-> normalizeTime(call.time),
              twice |-> normalizeTime(normalizeTime(call.time))])

\* ---- the row transform of preprocessFile
KeyAuto == <<"a", "u", "t", "o">>

\* the non-empty cells a column may hold
ColumnTexts ==
  (KeyData :> {<<"2", "0", "2", "4", "-", "0", "3", "-", "0", "2">>, <<"x">>})
    @@ (KeyHora :> {<<"7", ":", "5">>, <<"7">>})
    @@ (KeyAuto :> {<<"1", ",", "5">>, <<"x">>})
    @@ (KeyTipo :> {<<"x">>})
    @@ (KeyConstructor :> {<<"x">>})

\* a row object of a file whose columns are some of the five, and a schema
\* that holds the columns of the file and maybe others
RowTransformCalls ==
  UNION {[fn : {"transformRow"},
          row : {row \in [columns -> CellPool \cup UNION Range(ColumnTexts)] :
                   \A k \in columns : row[k] \in {<<>>} \cup ColumnTexts[k]},
          allHeaders : {SortSet(columns \cup others) :
                          others \in SUBSET (DOMAIN ColumnTexts \ columns)}] :
         columns \in SUBSET DOMAIN ColumnTexts}

Fn_TransformRow ==
  /\ call.fn = "transformRow"
  /\ \E parsedDate \in DateOutcomes(RawOrEmpty(call.row, KeyData), tzWest) :
       Returns(transformRow(call.row, call.allHeaders, parsedDate))

\* ---- normalizeDate
\* the empty text, days in the form YYYY-MM-DD (the first of a month and of
\* a year among them), a slash date and texts in no known form
DayTexts ==
  { <<>>,
    <<"2", "0", "2", "4", "-", "0", "3", "-", "0", "2">>,
    <<"2", "0", "2", "4", "-", "0", "3", "-", "0", "1">>,
    <<"2", "0", "2", "4", "-", "0", "1", "-", "0", "1">>,
    <<"2", "0", "2", "4", "-", "0", "2", "-", "2", "9">>,
    <<"0", "2", "/", "0", "3", "/", "2", "0", "2", "4">>,
    <<"x">>,
    <<"2", "0", "2", "4", "-", "3", "-", "2">> }

NormalizeDateCalls == [fn : {"normalizeDate"}, date : DayTexts]

\* normalizeDate, and normalizeDate of what it returned, in the time zone of
\* the process
Fn_NormalizeDate ==
  /\ call.fn = "normalizeDate"
  /\ \E first \in DateOutcomes(call.date, tzWest) :
       LET once == normalizeDate(call.date, first)
       IN \E second \in DateOutcomes(once, tzWest) :
            Returns([once |-> once, twice |-> normalizeDate(once, second)])

InitFn ==
  \/ FnInit(OutputNameCalls, {FALSE})
  \/ FnInit(SeparatorCalls, {FALSE})
  \/ FnInit(DelimiterCalls, {FALSE})
  \/ FnInit(HeaderCalls, {FALSE})
  \/ FnInit(NumericCalls, {FALSE})
  \/ FnInit(ScenarioCalls, BOOLEAN)
  \/ FnInit(NdjsonCalls, {FALSE})
  \/ FnInit(TransformCalls, {FALSE})
  \/ FnInit(CombineCalls, {FALSE})
  \/ FnInit(NormalizeTimeCalls, {FALSE})
  \/ FnInit(RowTransformCalls, BOOLEAN)
  \/ FnInit(NormalizeDateCalls, BOOLEAN)

NextFn ==
  \/ Fn_OutputFileName
  \/ Fn_Separators
  \/ Fn_DetectDelimiter
  \/ Fn_StandardizeHeader
  \/ Fn_ParseNumericField
  \/ Fn_Scenario
  \/ Fn_NdjsonTransform
  \/ Fn_TransformRows
  \/ Fn_CombineDateTime
  \/ Fn_NormalizeTime
  \/ Fn_TransformRow
  \/ Fn_NormalizeDate

\* the helper functions, each called on its own
SpecFn == InitFn /\ [][NextFn]_vars

\* ------------------------------------------------------------------ claims
FileA == TextFile(".csv", LineA)
FileB == TextFile(".tsv", LineB)
KeyNumX == <<"n", "u", "m", "_", "x">>

MainReturned == mainpc \in {"done", "caught"}

\* the file whose preprocessFile has just returned, if any
JustReturned == i - 1

\* the lines of an output file that has its header line and n data rows
HeaderAndRows(n) == [k \in 1..(n + 1) |-> k - 1]

\* C1: in the metrics runner, when the promise of processFile for a file
\* rejects, every later file of the listing is still attempted and the
\* summary is printed after the last file: whenever main has returned from a
\* listing that is not empty, processFile was called for every file and the
\* summary was printed.
C1_FailedFileKeepsBatchGoing ==
  (prog = "metrics" /\ MainReturned /\ NFiles > 0)
    => (attempted = 1..NFiles /\ summary)

\* C2: in both preprocessors a per-file fatal error (input unreadable, output
\* path unwritable, parser fault) ends only that file: the process is not
\* brought down while the files are processed, and once preprocessAllFiles
\* has returned preprocessFile was called for every file.
C2_FatalErrorEndsOnlyItsFile ==
  prog \in {"unified", "ndjson"}
    => /\ ~(proc = "crashed" /\ mainpc = "loop")
       /\ (mainpc = "done" => attempted = 1..NFiles)

\* the rows delivered so far for which processRow rejects
RejectedRows == {k \in DOMAIN delivered : delivered[k]}

StreamErrorLogged ==
  \/ <<"error", "processing failed", i>> \in log
  \/ <<"error", "counting rows", i>> \in log

\* C3: a row error never fails the file: the promise of processFile is
\* rejected only by a stream 'error' handler (which logs the stream error of
\* the file), and the step that settles a row whose processRow rejected adds
\* exactly 1 to errorCount, counts the row, leaves the promise as it was and
\* resumes the stream so that the following rows are processed.
C3_RowErrorNeverFailsFile ==
  /\ [](settled.state = "rejected" => StreamErrorLogged)
  /\ [][\A k \in inflight \ inflight' :
          /\ settled' = settled
          /\ rowCount' = rowCount + 1
          /\ errorCount' = errorCount + (IF delivered[k] THEN 1 ELSE 0)
          /\ flowing']_vars

\* a file resolved although processRow rejected for its first row, a second
\* row having been processed after it
C3_Witness ==
  /\ prog = "metrics"
  /\ settled.state = "resolved"
  /\ Len(delivered) = 2 /\ delivered[1]
  /\ settled.errorCount >= 1 /\ settled.rowCount = 2

RowsInFlight ==
  IF prog = "metrics" THEN Cardinality(inflight)
  ELSE IF prog = "unified" THEN started - completed
  ELSE IF fpc = "pull" THEN Len(pending[i])
  ELSE 0

IsAscending(seq) == \A k \in 1..(Len(seq) - 1) : seq[k] < seq[k + 1]

\* C5: in every pipeline the rows of a file are handled in arrival order and
\* the handling of row N+1 does not start before the transform and the write
\* of row N have completed: at most one row is in flight, and the lines of an
\* output file are in the order of the rows.
C5_OneRowInFlight ==
  /\ RowsInFlight <= 1
  /\ \A f \in DOMAIN out : IsAscending(out[f])

\* the headers the parser delivers for the files whose header line it reads
DeliveredHeaders ==
  UNION {Range(ParsedHeaders(files[f])) :
           f \in {g \in DOMAIN files : files[g].kind = "text"}}

CollectReturned == prog = "unified" /\ mainpc \in {"loop", "done"}

\* C6: collectUniqueHeaders returns exactly the union over the files of
\* standardizeHeader applied to every column label, without duplicates and in
\* ascending order; for the files "Data,Hora" and " hora ;num x" that is
\* data, hora, num_x.
C6_SchemaIsSortedUnion ==
  CollectReturned =>
    /\ Range(unified) = DeliveredHeaders
    /\ \A k \in 1..(Len(unified) - 1) : StrLess(unified[k], unified[k + 1])
    /\ (Range(files) = {FileA, FileB}
          => unified = <<KeyData, KeyHora, KeyNumX>>)

\* collectUniqueHeaders returned for two files that share a column
C6_Witness ==
  /\ CollectReturned
  /\ files = <<FileB, FileA>>
  /\ Len(unified) = 3

\* C7: in schema-unified mode every record built for a row has exactly the
\* keys of the unified schema, no key missing and no extra key, whatever
\* columns the files of the batch have.
C7_RecordHasSchemaKeys ==
  (prog = "unified" /\ proc = "running" /\ fpc = "write")
    => DOMAIN rec = Range(unified)

\* C8: the unified schema is complete before the first row of any file is
\* transformed (every header scan is over) and no step changes it afterwards:
\* once preprocessFile has been called, every file was scanned, the schema is
\* the set collectUniqueHeaders gathered, and it stays what
\* collectUniqueHeaders returned up to the last row of the last file.
C8_SchemaFixedBeforeRows ==
  /\ []((prog = "unified" /\ attempted # {})
          => (scan = NFiles + 1 /\ Range(unified) = allHeaders))
  /\ [][CollectReturned => (unified' = unified /\ allHeaders' = allHeaders)]_vars

\* the last row of the last file of a batch of two is being written
C8_Witness ==
  /\ prog = "unified" /\ fpc = "write"
  /\ NFiles = 2 /\ i = NFiles
  /\ started = MaxRows
  /\ unified # <<>>

\* C9: in collectUniqueHeaders a failure to read the header of a file (file
\* unreadable, parser error) does not terminate the process: the file is
\* skipped and the scan goes on.
C9_HeaderFailureSkipsFile ==
  (/\ prog = "unified" /\ mainpc = "collect"
   /\ scan \in 1..NFiles
   /\ files[scan].kind \in {"unreadable", "badheader"})
    => proc # "crashed"

\* C10: collectUniqueHeaders returns for every batch, files that are empty
\* included: the process never comes to its end while collectUniqueHeaders
\* has not returned.
C10_CollectReturns ==
  (prog = "unified" /\ proc = "exited") => MainReturned

\* C11: in schema-unified mode the output file of every successfully
\* processed input file, an input file with a header line and no data row
\* included, starts with the header row of the unified schema, followed by
\* one data row per input row in input order: when preprocessFile has just
\* logged the success of a file that delivered n rows, the output file holds
\* the header line and the rows 1..n.
C11_OutputHasHeaderAndRows ==
  (/\ prog = "unified" /\ proc = "running"
   /\ mainpc = "loop" /\ fpc = "idle"
   /\ JustReturned \in DOMAIN files
   /\ <<"info", "processed", JustReturned>> \in log)
    => out[JustReturned] = HeaderAndRows(started)

\* C12: each input file of a batch gets its own output file: the output-name
\* computation of preprocessFile never gives two different file names that
\* the batch accepts the same output name.
C12_OutputNamesDiffer ==
  (Returned("outputFileName") /\ BothAccepted /\ call.first # call.second)
    => result.value[1] # result.value[2]

\* C13: for every input file the delimiter its parser gets, in the header
\* scan of collectUniqueHeaders and in the row streaming of each pipeline, is
\* the one detected from the first line of the file (tab, then semicolon,
\* then comma, comma by default), and the header scan and the row streaming
\* of a file use the same delimiter.
C13_DelimiterFromContent ==
  Returned("separators") =>
    LET detected == detectDelimiter(call.line)
    IN /\ result.value.scan = detected
       /\ result.value.stream = detected
       /\ result.value.metrics = detected
       /\ result.value.ndjson = detected
       /\ result.value.scan = result.value.stream

\* C18: standardizeHeader is total and idempotent: for every string it
\* returns a string of characters of [a-z0-9_], applying it to its result
\* changes nothing, and the copy of index.ts returns the same as the copy of
\* preprocess.ts.
C18_StandardizeHeaderIdempotent ==
  Returned("standardizeHeader") =>
    /\ Range(result.value.once) \subseteq WordCharSet
    /\ result.value.twice = result.value.once
    /\ result.value.metrics = result.value.once

\* " A-" is standardized to "a"
C18_Witness ==
  /\ Returned("standardizeHeader")
  /\ call.header = <<" ", "A", "-">>
  /\ result.value.once = <<"a">>

\* C19: parseNumericField returns a finite number for every string: 0 for
\* the empty text and for "abc", 1.5 for "1,5", and never NaN or an infinity,
\* the text "Infinity" included.
C19_ParseNumericFieldFinite ==
  Returned("parseNumericField") =>
    /\ result.value.kind = "num"
    /\ (call.value \in {<<>>, <<"a", "b", "c">>} => result.value = Zero)
    /\ (call.value = <<"1", ",", "5">> =>
          result.value = [kind |-> "num", neg |-> FALSE,
                          int |-> <<"1">>, frac |-> <<"5">>])

\* the characters of the first line of the content of the call
FirstLineChars ==
  LET breaks == {k \in DOMAIN call.content : call.content[k] = "\n"}
      end == IF breaks = {} THEN Len(call.content)
             ELSE (CHOOSE k \in breaks : \A j \in breaks : k <= j) - 1
  IN {call.content[k] : k \in 1..end}

\* C20: detectDelimiter decides from the first line of the file only, tab
\* before semicolon before comma; when the first line holds none of them, or
\* the file is empty, it returns the comma and logs a warning. What the later
\* lines hold does not change the result.
C20_DetectDelimiterPriority ==
  Returned("detectDelimiter") =>
    /\ result.value.delimiter =
         (IF "\t" \in FirstLineChars THEN "\t"
          ELSE IF ";" \in FirstLineChars THEN ";"
          ELSE ",")
    /\ result.value.warned = (FirstLineChars \cap {"\t", ";", ","} = {})

\* a comma on the first line and a semicolon on the second: the comma
C20_Witness ==
  /\ Returned("detectDelimiter")
  /\ call.content = <<",", "\n", ";">>
  /\ result.value.delimiter = ","
  /\ ~result.value.warned

\* C14: end to end in schema-unified mode, for file A (header Data,Hora,Tipo,
\* row 01/03/2024, 14:5, Colisão) and file B (header data;situacao, row
\* 2024-03-02, Resolvido) the unified schema is data, hora, situacao, tipo;
\* the record of A has data 2024-03-01, hora 14:05:00, tipo Colisão and
\* situacao empty; the record of B has data 2024-03-02, situacao Resolvido
\* and hora and tipo empty.
C14_TwoFileScenario ==
  Returned("scenario") =>
    /\ result.value.schema =
         <<KeyData, KeyHora, KeySituacao, KeyTipo>>
    /\ result.value.recordA =
         (KeyData :> Str(<<"2", "0", "2", "4", "-", "0", "3", "-", "0", "1">>)
          @@ KeyHora :> Str(<<"1", "4", ":", "0", "5", ":", "0", "0">>)
          @@ KeySituacao :> Str(<<>>)
          @@ KeyTipo :> Str(<<"C", "o", "l", "i", "s", "ã", "o">>))
    /\ result.value.recordB =
         (KeyData :> Str(<<"2", "0", "2", "4", "-", "0", "3", "-", "0", "2">>)
          @@ KeyHora :> Str(<<>>)
          @@ KeySituacao :> Str(<<"R", "e", "s", "o", "l", "v", "i", "d", "o">>)
          @@ KeyTipo :> Str(<<>>))

\* the raw value of a key of the row of the call, "" when the row lacks it
RawValue(key) == IF key \in DOMAIN call.row THEN call.row[key] ELSE <<>>

\* C16: in NDJSON mode the tipo of a record is the first non-empty value
\* among natureza_acidente, natureza and tipo, in that order, and "" when all
\* three are empty or missing; a row without any of them is logged with a
\* warning and is still written; the record has exactly the keys tipo,
\* situacao, datahora and meta.
C16_TipoFirstNonEmpty ==
  Returned("ndjsonTransform") =>
    LET record == result.value.written[1]
    IN /\ Len(result.value.written) = 1
       /\ DOMAIN record = {"tipo", "situacao", "datahora", "meta"}
       /\ RawValue(KeyNaturezaAcidente) # <<>>
            => record.tipo = RawValue(KeyNaturezaAcidente)
       /\ (RawValue(KeyNaturezaAcidente) = <<>> /\ RawValue(KeyNatureza) # <<>>)
            => record.tipo = RawValue(KeyNatureza)
       /\ (RawValue(KeyNaturezaAcidente) = <<>> /\ RawValue(KeyNatureza) = <<>>)
            => record.tipo = RawValue(KeyTipo)
       /\ ("missing tipo" \in result.value.warned) = (record.tipo = <<>>)

\* natureza_acidente is empty, natureza is "a" and tipo is "b": tipo is "a"
C16_Witness ==
  /\ Returned("ndjsonTransform")
  /\ DOMAIN call.row = {KeyNaturezaAcidente, KeyNatureza, KeyTipo}
  /\ call.row[KeyNaturezaAcidente] = <<>>
  /\ call.row[KeyNatureza] = <<"a">>
  /\ call.row[KeyTipo] = <<"b">>
  /\ result.value.written[1].tipo = <<"a">>

\* C17: in NDJSON mode the meta of a record holds exactly the entries of the
\* raw row whose key is not a consumed key (tipo, natureza_acidente,
\* natureza, situacao, data, hora): every other raw key is there with its raw
\* value and no consumed key is there.
C17_MetaHoldsOtherFields ==
  Returned("ndjsonTransform") =>
    LET meta == result.value.written[1].meta
    IN /\ \A k \in DOMAIN call.row \ ConsumedKeys :
            k \in DOMAIN meta /\ meta[k] = call.row[k]
       /\ DOMAIN meta \cap ConsumedKeys = {}
       /\ DOMAIN meta \subseteq DOMAIN call.row

\* a row with tipo and one other field: meta holds the other field only
C17_Witness ==
  /\ Returned("ndjsonTransform")
  /\ DOMAIN call.row = {KeyTipo, KeyOther}
  /\ call.row[KeyOther] = <<"a">>
  /\ result.value.written[1].meta = (KeyOther :> <<"a">>)

\* C15: in NDJSON mode a row whose record cannot be built is skipped: no line
\* is written for it, an error is logged with the number of the row, counted
\* from 1, and the row itself, the file goes on and the later rows are still
\* written; the lines written and the rows skipped add up to the rows parsed.
C15_RowExceptionSkipsRow ==
  Returned("transformRows") =>
    LET rows == call.rows
        built == SelectSeq(rows, LAMBDA r : ~r.throws)
        written == result.value.written
        errors == result.value.errors
    IN /\ written = [k \in 1..Len(built) |-> ndjsonRecord(built[k].row)]
       /\ \A n \in 1..Len(rows) :
            rows[n].throws
              <=> [lineNumber |-> n, row |-> rows[n].row] \in Range(errors)
       /\ Len(written) + Len(errors) = Len(rows)
       /\ result.value.lineNumber = Len(rows)

\* the first row raised an exception and the second row was written
C15_Witness ==
  /\ Returned("transformRows")
  /\ Len(call.rows) = 2
  /\ call.rows[1].throws /\ ~call.rows[2].throws
  /\ result.value.written = <<ndjsonRecord(call.rows[2].row)>>
  /\ result.value.errors = <<[lineNumber |-> 1, row |-> call.rows[1].row]>>

\* the text of s before the first c
BeforeFirst(s, c) ==
  IF c \in Range(s)
  THEN SubSeq(s, 1, (CHOOSE k \in DOMAIN s :
                       s[k] = c /\ \A j \in 1..(k - 1) : s[j] # c) - 1)
  ELSE s

\* C21: combineDateTime returns D T t -03:00, where D is the trimmed text of
\* the date before its first "T" and t is the trimmed text of the time before
\* its first "." when that is a valid HH:mm:ss and 00:00:00 otherwise; the
\* time part of the result is always valid; a warning is logged only when a
\* time value was present and invalid.
C21_CombineDateTime ==
  Returned("combineDateTime") =>
    LET D == Trim(BeforeFirst(call.date, "T"))
        candidate == Trim(BeforeFirst(call.time, "."))
        t == IF call.given /\ isValidTime(candidate) THEN candidate
             ELSE MidnightText
    IN /\ result.value.value = D \o <<"T">> \o t \o OffsetText
       /\ isValidTime(t)
       /\ result.value.warned
            => call.given /\ ~isValidTime(candidate)

\* the text of s after the first c
AfterFirst(s, c) == SubSeq(s, Len(BeforeFirst(s, c)) + 2, Len(s))

\* s left-padded with "0" to two characters
ZeroPadded(s) ==
  IF Len(s) >= 2 THEN s
  ELSE [k \in 1..2 |-> IF k <= 2 - Len(s) THEN "0" ELSE s[k - (2 - Len(s))]]

\* C22: normalizeTime returns "" for a text with fewer than two components
\* between ":" (the empty text included); otherwise hour:minute:second, hour
\* and minute left-padded with "0" to two characters, second the third
\* component padded likewise or "00" when there is none; "7:5" gives
\* "07:05:00" and "7" gives ""; it is idempotent on what it returns.
C22_NormalizeTime ==
  Returned("normalizeTime") =>
    LET x == call.time
        rest == AfterFirst(x, ":")
        second == IF ":" \in Range(rest)
                  THEN ZeroPadded(BeforeFirst(AfterFirst(rest, ":"), ":"))
                  ELSE <<"0", "0">>
    IN /\ result.value.once =
            IF ":" \notin Range(x) THEN <<>>
            ELSE ZeroPadded(BeforeFirst(x, ":")) \o <<":">>
                   \o ZeroPadded(BeforeFirst(rest, ":")) \o <<":">> \o second
       /\ result.value.twice = result.value.once
       /\ x = <<"7", ":", "5">>
            => result.value.once = <<"0", "7", ":", "0", "5", ":", "0", "0">>
       /\ x = <<"7">> => result.value.once = <<>>

\* "1:2:3:4" gives "01:02:03", and that text gives itself
C22_Witness ==
  /\ Returned("normalizeTime")
  /\ call.time = <<"1", ":", "2", ":", "3", ":", "4">>
  /\ result.value.once = <<"0", "1", ":", "0", "2", ":", "0", "3">>
  /\ result.value.twice = result.value.once

\* C23: in schema-unified mode the value of a key k of a record depends on k
\* and on the raw row alone: the number of the raw text when k is a numeric
\* name, the normalized date when k is data, the normalized time when k is
\* hora, and else the raw text unchanged, "" when the file of the row lacks
\* the column; the record has every key of the schema.
C23_ValueFromKeyAndRawRow ==
  Returned("transformRow") =>
    /\ DOMAIN result.value = Range(call.allHeaders)
    /\ \A k \in DOMAIN result.value :
         LET raw == IF k \in DOMAIN call.row THEN call.row[k] ELSE <<>>
         IN IF IsNumericField(k)
            THEN result.value[k] = parseNumericField(raw)
            ELSE IF k = KeyData
            THEN \E parsedDate \in DateOutcomes(raw, tzWest) :
                   result.value[k] = Str(normalizeDate(raw, parsedDate))
            ELSE IF k = KeyHora
            THEN result.value[k] = Str(normalizeTime(raw))
            ELSE result.value[k] = Str(raw)

\* the reports that file f is done: the success logged by preprocessFile,
\* the completion printed when processFile resolves
DoneReports(f) == {<<"info", "processed", f>>, <<"info", "completed file", f>>}

FailureReport(f) == <<"error", "processing failed", f>>

\* C24: a file is reported done only after every record of its rows has been
\* handed to the output and the output has been flushed; no record of a file
\* is written after the file was reported done; a file fails only once its
\* streams are open.
C24_FileStatesInOrder ==
  /\ [][\A f \in DOMAIN pending :
          (DoneReports(f) \cap log = {} /\ DoneReports(f) \cap log' # {})
            => pending[f] = <<>> /\ inflight = {} /\ fpc \notin {"idle", "write"}]_vars
  /\ [][\A f \in DOMAIN out :
          DoneReports(f) \cap log # {} => out'[f] = out[f]]_vars
  /\ [][\A f \in DOMAIN files :
          (FailureReport(f) \notin log /\ FailureReport(f) \in log')
            => fpc # "idle"]_vars

\* the text of datahora between its first "T" and the offset
TimePart(datahora) ==
  LET tail == AfterFirst(datahora, "T")
  IN SubSeq(tail, 1, Len(tail) - Len(OffsetText))

\* C25: in NDJSON mode every non-empty raw value of a row that is written
\* can be read back from the record: as tipo when its key is tipo or a
\* synonym, as situacao, as the date or the time part of datahora, or under
\* its key in meta.
C25_NoRawValueLost ==
  Returned("ndjsonTransform") =>
    LET row == call.row
        record == result.value.written[1]
    IN \A k \in DOMAIN row :
         row[k] # <<>> =>
           IF k \in {KeyNaturezaAcidente, KeyNatureza, KeyTipo}
           THEN record.tipo = row[k]
           ELSE IF k = KeySituacao THEN record.situacao = row[k]
           ELSE IF k = KeyData
           THEN BeforeFirst(record.datahora, "T") = row[k]
           ELSE IF k = KeyHora THEN TimePart(record.datahora) = row[k]
           ELSE k \in DOMAIN record.meta /\ record.meta[k] = row[k]

\* C26: normalizeDate returns "" for the empty text, returns a valid day
\* written as YYYY-MM-DD unchanged in every time zone, and applied to its
\* own result returns that result.
C26_NormalizeDateStable ==
  Returned("normalizeDate") =>
    /\ call.date = <<>> => result.value.once = <<>>
    /\ IsIsoDate(call.date) => result.value.once = call.date
    /\ result.value.twice = result.value.once

====
